---- MODULE Spec2Model ----
(***************************************************************************)
(* The react-hooks(exhaustive-deps) lint rule of oxc_linter,               *)
(* crates/oxc_linter/src/rules/react_hooks/exhaustive_deps.rs.             *)
(*                                                                         *)
(* ExhaustiveDeps::run is called on one AST node.  The node, the call      *)
(* expression it holds and the semantic index are read-only inputs; the    *)
(* declared set, the found set and the list of diagnostics are the state   *)
(* the pass builds.  The pass is modelled statement by statement, in the   *)
(* order of the code.  SpecSites has the host call `run` on several call   *)
(* sites of one file; SpecUnused is the typescript no-unused-vars rule of  *)
(* crates/oxc_linter/src/rules/typescript/no_unused_vars.rs.               *)
(*                                                                         *)
(* Syntax trees are records; the set of field names tells the node kind.   *)
(* A Rust String holding a dependency is a sequence of tokens in which     *)
(* "." is the separator written by format!("{}.{}", ..) and searched for   *)
(* by split_once(".").  Option<T> is a sequence of length 0 or 1, except   *)
(* Option<String>, where None is the empty token sequence.                 *)
(***************************************************************************)
EXTENDS Naturals, Sequences, FiniteSets

VARIABLES
    node_kind,      \* node.kind() of the node `run` is called on
    call_expr,      \* the call expression: [callee, arguments, span]
    sem,            \* the semantic index: identifier name -> what it resolves to
    pc,             \* position of `run`
    callback,       \* Option<String> func_call_without_react_namespace returned
    declared_deps,  \* HashSet<String> of line 58
    found_deps,     \* HashSet<String> of line 67
    stmt_idx,       \* index of the next body statement of the loop of line 70
    undeclared_deps,\* what is left of the Vec of line 76
    diagnostics,    \* what ctx.diagnostic has received, in order
    pending,        \* the call sites of the file the host has not called `run` on
    suspended,      \* the activations of `run` that are not executing now
    binding_identifier, \* the BindingIdentifier NoUnusedVars::run is called on, if it is one
    nodes,          \* ctx.nodes(): the class nodes of the file, as NoUnusedVars reads them
    resolved_references \* symbols.get_resolved_reference_ids: symbol id -> reference ids

vars == <<node_kind, call_expr, sem, pc, callback, declared_deps, found_deps,
          stmt_idx, undeclared_deps, diagnostics, pending, suspended,
          binding_identifier, nodes, resolved_references>>

----------------------------------------------------------------------------
(* Bounds of the explored inputs *)

\* longest property chain written in a body or in a dependency array
MaxDepth == 2
\* most statements in a callback body
MaxStmts == 2
\* most elements in a dependency array
MaxElems == 2
\* most call sites of one file the host calls `run` on
MaxSites == 2
\* most ancestors of a binding identifier
MaxParents == 2
\* most class nodes of a file
MaxNodes == 2

SeqUpTo(S, n) == UNION {[1..k -> S] : k \in 0..n}

----------------------------------------------------------------------------
(* Syntax trees *)

None == <<>>

Ident(n) == [id |-> n]
StaticMember(o, p) == [object |-> o, property |-> p, computed |-> FALSE]
ComputedMember(o, p) == [object |-> o, property |-> p, computed |-> TRUE]
ChainExpr(e) == [chain |-> e]
Call(c, args) == [callee |-> c, arguments |-> args]
ArrayExpr(elems) == [elements |-> elems]
OtherExpr(k, operands) == [kind |-> k, operands |-> operands]
Arrow(stmts) == [arrow |-> stmts]
FunctionExpr(stmts) == [function |-> stmts]
Spread(e) == [spread |-> e]
Elision == [elision |-> TRUE]
ExprStmt(e) == [expression |-> e]
OtherStmt(k, e) == [statement |-> k, inner |-> e]

IsIdentifier(e) == DOMAIN e = {"id"}
IsMember(e) == DOMAIN e = {"object", "property", "computed"}
IsCall(e) == DOMAIN e = {"callee", "arguments"}
IsArray(e) == DOMAIN e = {"elements"}
IsArrow(e) == DOMAIN e = {"arrow"}
IsSpread(e) == DOMAIN e = {"spread"}
IsElision(e) == DOMAIN e = {"elision"}
IsExprStmt(s) == DOMAIN s = {"expression"}

\* Argument::Expression and ArrayExpressionElement::Expression
IsExpression(a) == ~IsSpread(a) /\ ~IsElision(a)

----------------------------------------------------------------------------
(* The rule *)

HOOKS == {"useEffect", "useLayoutEffect", "useCallback", "useMemo"}

\* MemberExpression::static_property_name: the name of a `.name` access,
\* nothing for an access computed from an index expression.
static_property_name(member_expr) ==
    IF member_expr.computed THEN None ELSE <<member_expr.property>>

RECURSIVE analyze_property_chain(_)

\* the `?` on the object (line 132) left out: the name of the property
\* returned alone when its object is not analyzable
analyze_property_chain_partial(expr) ==
    IF IsIdentifier(expr) THEN <<expr.id>>
    ELSE IF IsMember(expr) THEN
        LET object == analyze_property_chain(expr.object)
            name   == static_property_name(expr)
        IN  IF name = None THEN None
            ELSE IF object = None THEN name
            ELSE object \o <<".">> \o name
    ELSE None

analyze_property_chain(expr) ==
    IF IsIdentifier(expr) THEN <<expr.id>>
    ELSE IF IsMember(expr) THEN
        LET object == analyze_property_chain(expr.object)
            name   == static_property_name(expr)
        IN  IF object = None \/ name = None THEN None
            ELSE object \o <<".">> \o name
    ELSE None

RECURSIVE collect_elements(_, _)

\* the loop of lines 106-119 left at the first element that gives no dependency
collect_elements_abort(elements, result) ==
    IF elements = <<>> THEN result
    ELSE LET elem == Head(elements)
             dependency == IF IsExpression(elem)
                           THEN analyze_property_chain(elem) ELSE None
         IN  IF dependency = None THEN result
             ELSE collect_elements(Tail(elements), result \cup {dependency})

collect_elements(elements, result) ==
    IF elements = <<>> THEN result
    ELSE LET elem == Head(elements)
             dependency == IF IsExpression(elem)
                           THEN analyze_property_chain(elem) ELSE None
         IN  collect_elements(Tail(elements),
                 IF dependency # None THEN result \cup {dependency} ELSE result)

collect_dependencies(deps) ==
    IF ~IsExpression(deps) THEN {}
    ELSE IF ~IsArray(deps) THEN {}
    ELSE collect_elements(deps.elements, {})

PatIdent(n) == [pattern |-> "BindingIdentifier", name |-> n]
PatOther(k) == [pattern |-> k, name |-> ""]

\* the comparison of the bound name with `name` (line 277) left out: every
\* element of a useState destructuring taken as stable
is_stable_value_any_element(node, name) ==
    IF node.node = "VariableDeclaration" THEN node.kind = "const"
    ELSE IF node.node = "VariableDeclarator" THEN
        IF node.kind = "const" THEN TRUE
        ELSE IF node.init = <<>> \/ ~IsCall(node.init[1]) THEN FALSE
        ELSE IF node.id.pattern # "ArrayPattern" THEN FALSE
        ELSE IF Len(node.id.elements) < 2 \/ node.id.elements[2] = <<>> THEN FALSE
        ELSE LET secondArg == node.id.elements[2][1]
                 initName == analyze_property_chain(node.init[1].callee)
             IN  IF secondArg.pattern # "BindingIdentifier" THEN FALSE
                 ELSE IF initName = None THEN FALSE
                 ELSE initName = <<"useState">> \/ initName = <<"useReducer">>
    ELSE FALSE

\* the check of the declaration kind (lines 256-258) left out for a declarator
is_stable_value_by_init(node, name) ==
    IF node.node = "VariableDeclaration" THEN node.kind = "const"
    ELSE IF node.node = "VariableDeclarator" THEN
        IF node.init = <<>> \/ ~IsCall(node.init[1]) THEN FALSE
        ELSE IF node.id.pattern # "ArrayPattern" THEN FALSE
        ELSE IF Len(node.id.elements) < 2 \/ node.id.elements[2] = <<>> THEN FALSE
        ELSE LET secondArg == node.id.elements[2][1]
                 initName == analyze_property_chain(node.init[1].callee)
             IN  IF secondArg.pattern # "BindingIdentifier" THEN FALSE
                 ELSE IF initName = None THEN FALSE
                 ELSE (initName = <<"useState">> \/ initName = <<"useReducer">>)
                      /\ secondArg.name = name
    ELSE FALSE

\* a formal parameter taken as stable
is_stable_value_params(node, name) ==
    IF node.node = "VariableDeclaration" THEN node.kind = "const"
    ELSE IF node.node = "VariableDeclarator" THEN
        IF node.kind = "const" THEN TRUE
        ELSE IF node.init = <<>> \/ ~IsCall(node.init[1]) THEN FALSE
        ELSE IF node.id.pattern # "ArrayPattern" THEN FALSE
        ELSE IF Len(node.id.elements) < 2 \/ node.id.elements[2] = <<>> THEN FALSE
        ELSE LET secondArg == node.id.elements[2][1]
                 initName == analyze_property_chain(node.init[1].callee)
             IN  IF secondArg.pattern # "BindingIdentifier" THEN FALSE
                 ELSE IF initName = None THEN FALSE
                 ELSE (initName = <<"useState">> \/ initName = <<"useReducer">>)
                      /\ secondArg.name = name
    ELSE node.node = "FormalParameter"

is_stable_value(node, name) ==
    IF node.node = "VariableDeclaration" THEN node.kind = "const"
    ELSE IF node.node = "VariableDeclarator" THEN
        IF node.kind = "const" THEN TRUE
        ELSE IF node.init = <<>> \/ ~IsCall(node.init[1]) THEN FALSE
        ELSE IF node.id.pattern # "ArrayPattern" THEN FALSE
        ELSE IF Len(node.id.elements) < 2 \/ node.id.elements[2] = <<>> THEN FALSE
        ELSE LET secondArg == node.id.elements[2][1]
                 initName == analyze_property_chain(node.init[1].callee)
             IN  IF secondArg.pattern # "BindingIdentifier" THEN FALSE
                 ELSE IF initName = None THEN FALSE
                 ELSE (initName = <<"useState">> \/ initName = <<"useReducer">>)
                      /\ secondArg.name = name
    ELSE FALSE

\* The scope of the node of a reference the walk visits: the walk never
\* enters a nested block or function, so it is the callback's own scope.
ReferenceScope == "callback"

\* the returns of lines 215-221 left out: a reference to a global, or one
\* without a declaration, taken as any other
is_identifier_a_dependency_unresolved(ident, s) ==
    LET declaration == s[ident.id]
    IN  IF is_stable_value(declaration, ident.id) THEN FALSE
        ELSE IF ~declaration.reference_id THEN FALSE
        ELSE IF declaration.scope = ReferenceScope THEN FALSE
        ELSE TRUE

is_identifier_a_dependency(ident, s) ==
    LET declaration == s[ident.id]
    IN  IF declaration.global THEN FALSE
        ELSE IF declaration.node = "None" THEN FALSE
        ELSE IF is_stable_value(declaration, ident.id) THEN FALSE
        ELSE IF ~declaration.reference_id THEN FALSE
        ELSE IF declaration.scope = ReferenceScope THEN FALSE
        ELSE TRUE

RECURSIVE check_expression(_, _, _)
RECURSIVE check_arguments(_, _, _)
RECURSIVE check_elements(_, _, _)

\* the loop of lines 160-168 left at the first argument that is no expression
check_arguments_abort(args, s, deps) ==
    IF args = <<>> THEN deps
    ELSE IF ~IsExpression(Head(args)) THEN deps
    ELSE check_arguments(Tail(args), s, check_expression(Head(args), s, deps))

check_arguments(args, s, deps) ==
    IF args = <<>> THEN deps
    ELSE check_arguments(Tail(args), s,
            IF IsExpression(Head(args))
            THEN check_expression(Head(args), s, deps) ELSE deps)

check_elements(elems, s, deps) ==
    IF elems = <<>> THEN deps
    ELSE check_elements(Tail(elems), s,
            IF IsExpression(Head(elems))
            THEN check_expression(Head(elems), s, deps) ELSE deps)

check_expression(expression, s, deps) ==
    IF IsCall(expression) THEN
        check_arguments(expression.arguments, s,
                        check_expression(expression.callee, s, deps))
    ELSE IF IsIdentifier(expression) THEN
        IF is_identifier_a_dependency(expression, s)
        THEN deps \cup {<<expression.id>>} ELSE deps
    ELSE IF IsMember(expression) THEN
        IF ~IsIdentifier(expression.object) THEN deps
        ELSE IF ~is_identifier_a_dependency(expression.object, s) THEN deps
        ELSE LET dependency == analyze_property_chain(expression)
             IN  IF dependency # None THEN deps \cup {dependency} ELSE deps
    ELSE IF IsArray(expression) THEN check_elements(expression.elements, s, deps)
    ELSE deps

check_statement(statement, s, deps) ==
    IF IsExprStmt(statement) THEN check_expression(statement.expression, s, deps)
    ELSE deps

\* the check of the namespace object (line 318) left out
func_call_without_any_namespace(call) ==
    LET inner_exp == call.callee
    IN  IF IsIdentifier(inner_exp) THEN <<inner_exp.id>>
        ELSE IF ~IsMember(inner_exp) THEN None
        ELSE IF inner_exp.computed THEN None
        ELSE IF ~IsIdentifier(inner_exp.object) THEN None
        ELSE <<inner_exp.property>>

func_call_without_react_namespace(call) ==
    LET inner_exp == call.callee
    IN  IF IsIdentifier(inner_exp) THEN <<inner_exp.id>>
        ELSE IF ~IsMember(inner_exp) THEN None
        ELSE IF inner_exp.computed THEN None
        ELSE IF ~IsIdentifier(inner_exp.object) THEN None
        ELSE IF inner_exp.object.id = "React" THEN <<inner_exp.property>>
        ELSE None

\* the difference forgotten: every found dependency is taken as undeclared
difference_forgotten(found, declared) == found

\* a first argument that is no function taken as a callback without statements
callback_body_lenient(call) ==
    IF Len(call.arguments) < 1 \/ ~IsExpression(call.arguments[1]) THEN <<<<>>>>
    ELSE IF ~IsArrow(call.arguments[1]) THEN <<<<>>>>
    ELSE <<call.arguments[1].arrow>>

\* a function expression taken as a callback like an arrow function
callback_body_function(call) ==
    IF Len(call.arguments) < 1 \/ ~IsExpression(call.arguments[1]) THEN None
    ELSE IF DOMAIN call.arguments[1] = {"function"} THEN <<call.arguments[1].function>>
    ELSE IF ~IsArrow(call.arguments[1]) THEN None
    ELSE <<call.arguments[1].arrow>>

\* lines 55-56 and 66: the statements of the arrow function that is the first
\* argument, None where `run` returns
callback_body(call) ==
    IF Len(call.arguments) < 1 \/ ~IsExpression(call.arguments[1]) THEN None
    ELSE IF ~IsArrow(call.arguments[1]) THEN None
    ELSE <<call.arguments[1].arrow>>

\* the symmetric difference: what is declared and not found reported as well
difference_symmetric(found, declared) == (found \ declared) \cup (declared \ found)

\* found_deps.difference(&declared_deps)
difference(found, declared) == found \ declared

\* dep.split_once("."): what precedes the first "." of dep, if it has one
split_once(dep) ==
    IF \E i \in 1..Len(dep) : dep[i] = "."
    THEN LET first == CHOOSE i \in 1..Len(dep) :
                         /\ dep[i] = "."
                         /\ \A j \in 1..(i - 1) : dep[j] # "."
         IN  <<SubSeq(dep, 1, first - 1)>>
    ELSE <<>>

\* the check of lines 79-83 left out
is_covered_never(dep, declared) == FALSE

\* the check of lines 79-83 matching any declared dependency of the same root
is_covered_by_sibling(dep, declared) ==
    \E d \in declared : split_once(d) # <<>> /\ split_once(d) = split_once(dep)

\* a declared dependency that extends dep taken as covering it
is_covered_by_extension(dep, declared) ==
    \/ split_once(dep) # <<>> /\ split_once(dep)[1] \in declared
    \/ \E d \in declared :
        /\ Len(d) > Len(dep)
        /\ SubSeq(d, 1, Len(dep)) = dep
        /\ d[Len(dep) + 1] = "."

\* the check of lines 79-83 turned round: what is covered is reported
is_covered_inverted(dep, declared) ==
    ~(split_once(dep) # <<>> /\ split_once(dep)[1] \in declared)

\* lines 79-83: access foo.bar and foo is declared as a dependency
is_covered(dep, declared) ==
    LET target == split_once(dep)
    IN  target # <<>> /\ target[1] \in declared

\* the diagnostic naming what precedes the first "." instead of the dependency
MissingDependencyDiagnostic_root(hook, dep, span) ==
    [hook |-> hook,
     dep |-> IF split_once(dep) # <<>> THEN split_once(dep)[1] ELSE dep,
     span |-> span]

MissingDependencyDiagnostic(hook, dep, span) ==
    [hook |-> hook, dep |-> dep, span |-> span]

----------------------------------------------------------------------------
(* The semantic index: what an identifier of the callback body resolves to *)

IdSimple == [pattern |-> "BindingIdentifier", elements |-> <<>>]
IdArray(elems) == [pattern |-> "ArrayPattern", elements |-> elems]
IdObject == [pattern |-> "ObjectPattern", elements |-> <<>>]

Symbol(global, node, kind, init, id, scope) ==
    [global |-> global, node |-> node, kind |-> kind, init |-> init, id |-> id,
     scope |-> scope, reference_id |-> TRUE]

GlobalSym == Symbol(TRUE, "None", "", <<>>, IdSimple, "root")
Unresolved == Symbol(FALSE, "None", "", <<>>, IdSimple, "root")
Param == Symbol(FALSE, "FormalParameter", "", <<>>, IdSimple, "outer")
Declared(node) == Symbol(FALSE, node, "", <<>>, IdSimple, "outer")
Declaration(kind) == Symbol(FALSE, "VariableDeclaration", kind, <<>>, IdSimple, "outer")
Declarator(kind, init, id, scope) ==
    Symbol(FALSE, "VariableDeclarator", kind, init, id, scope)

Kinds == {"const", "let", "var"}
ObjectLiteral == OtherExpr("ObjectExpression", <<>>)
LetOuter == Declarator("let", <<ObjectLiteral>>, IdSimple, "outer")

React(name) == StaticMember(Ident("React"), name)
StateCallees ==
    {Ident("useState"), Ident("useReducer"), React("useState"), React("useReducer"),
     Ident("useRef")}

\* the array patterns that bind x: [x, setX], [state, x], [, x]
XPatterns ==
    {<< <<PatIdent("x")>>, <<PatIdent("setX")>> >>,
     << <<PatIdent("state")>>, <<PatIdent("x")>> >>,
     << <<>>, <<PatIdent("x")>> >>}

XInfos ==
    {GlobalSym, Unresolved, Param, Declared("Function"), Declared("Class"),
     Declared("ImportSpecifier")}
    \cup {Declaration(k) : k \in Kinds}
    \cup {Declarator(k, i, IdSimple, sc) :
            k \in Kinds,
            i \in {<<>>, <<ObjectLiteral>>, <<Call(Ident("someFunc"), <<>>)>>},
            sc \in {"outer", "callback"}}
    \cup {Declarator("var", <<ObjectLiteral>>, IdSimple, "inner")}
    \cup {Declarator(k, <<Call(c, <<>>)>>, IdArray(p), "outer") :
            k \in Kinds, c \in StateCallees, p \in XPatterns}
    \cup {Declarator(k, <<Ident("pair")>>, IdArray(p), "outer") :
            k \in Kinds, p \in XPatterns}
    \cup {Declarator(k, <<Call(Ident("useState"), <<>>)>>, IdObject, "outer") :
            k \in Kinds}

Names == {"props", "x", "console"}

SemWith(xinfo) ==
    [n \in Names |-> IF n = "props" THEN Param
                     ELSE IF n = "x" THEN xinfo ELSE GlobalSym]

----------------------------------------------------------------------------
(* The explored call sites *)

Site(nk, callee, args, s) ==
    [node_kind |-> nk,
     call_expr |-> [callee |-> callee, arguments |-> args, span |-> 0],
     sem |-> s]

Log(e) == Call(StaticMember(Ident("console"), "log"), <<e>>)

SpineName(k) == IF k % 2 = 1 THEN "foo" ELSE "bar"

RECURSIVE SpinePath(_, _)
SpinePath(root, k) ==
    IF k = 0 THEN Ident(root)
    ELSE StaticMember(SpinePath(root, k - 1), SpineName(k))

PropsFoo == StaticMember(Ident("props"), "foo")
PropsBar == StaticMember(Ident("props"), "bar")
PropsFooBar == StaticMember(PropsFoo, "bar")

\* props, props.foo, props.foo.bar, ..., props.bar, x
DiffPaths ==
    {SpinePath("props", k) : k \in 0..MaxDepth} \cup {PropsBar, Ident("x")}

HookCall(args, s) == Site("CallExpression", Ident("useEffect"), args, s)

\* reads and declarations of plain property chains
DiffBodies == SeqUpTo({ExprStmt(Log(p)) : p \in DiffPaths}, MaxStmts)
DiffDeps == SeqUpTo(DiffPaths, MaxElems)

XStmts ==
    {ExprStmt(Log(Ident("x"))), ExprStmt(Call(Ident("x"), <<>>)),
     ExprStmt(Log(StaticMember(Ident("x"), "foo")))}

\* every declaration shape of x
SemBodies == SeqUpTo(XStmts, MaxStmts)
SemDeps == {<<ArrayExpr(<<>>)>>, <<ArrayExpr(<<Ident("x")>>)>>}

DepElems ==
    {Ident("props"), Ident("x"), PropsFoo, ChainExpr(PropsFoo),
     ComputedMember(Ident("props"), "foo"), Call(PropsFoo, <<>>),
     OtherExpr("LogicalExpression", <<Ident("x")>>),
     StaticMember(Call(Ident("x"), <<>>), "foo"),
     StaticMember(ComputedMember(Ident("x"), "0"), "foo"),
     Elision, Spread(Ident("x"))}

\* every shape of the second argument
DepShapeBodies ==
    {<<ExprStmt(Log(PropsFoo))>>,
     <<ExprStmt(Log(Ident("x"))), ExprStmt(Log(PropsFooBar))>>}
DepShapes ==
    {<<>>, <<Ident("undefined")>>, <<Ident("x")>>, <<Call(Ident("x"), <<>>)>>,
     <<Spread(Ident("x"))>>}
    \cup {<<ArrayExpr(a)>> : a \in SeqUpTo(DepElems, MaxElems)}

BodyStmts ==
    {ExprStmt(e) : e \in
        {Ident("x"), PropsFoo, Log(PropsFooBar), ChainExpr(PropsFoo),
         ComputedMember(Ident("x"), "0"),
         StaticMember(ComputedMember(Ident("x"), "0"), "foo"),
         Call(Ident("x"), <<Ident("props")>>),
         Call(StaticMember(Ident("console"), "log"), <<Spread(Ident("x")), PropsBar>>),
         ArrayExpr(<<Elision, Ident("x")>>),
         OtherExpr("BinaryExpression", <<Ident("x")>>)}}
    \cup {OtherStmt("IfStatement", Ident("x")),
          OtherStmt("ReturnStatement", PropsFoo),
          OtherStmt("VariableDeclaration", Ident("x"))}

\* every shape of the callback body
BodyShapes == SeqUpTo(BodyStmts, MaxStmts)
BodyShapeDeps ==
    {<<>>, <<Ident("undefined")>>, <<ArrayExpr(<<>>)>>,
     <<ArrayExpr(<<Ident("props")>>)>>, <<ArrayExpr(<<PropsFoo>>)>>,
     <<ArrayExpr(<<Ident("x")>>)>>}

\* every shape of the node, of the callee and of the first argument
NodeKinds == {"CallExpression", "IdentifierReference"}
Callees ==
    {Ident(h) : h \in HOOKS \cup {"useState", "useImperativeHandle"}}
    \cup {React(h) : h \in HOOKS \cup {"useState"}}
    \cup {StaticMember(Ident("Preact"), "useEffect"),
          ComputedMember(Ident("React"), "useEffect"),
          Call(Ident("useEffect"), <<>>)}
FirstArguments ==
    {<<>>, <<Arrow(<<ExprStmt(Log(PropsFoo))>>)>>,
     <<FunctionExpr(<<ExprStmt(Log(PropsFoo))>>)>>,
     <<Ident("x")>>, <<Spread(Ident("x"))>>}
MatchDeps == {<<>>, <<ArrayExpr(<<>>)>>}

----------------------------------------------------------------------------
(* ExhaustiveDeps::run *)

\* the state when `run` is entered on the node of a site
Enter(site) ==
    /\ node_kind = site.node_kind
    /\ call_expr = site.call_expr
    /\ sem = site.sem
    /\ pc = "run"
    /\ callback = None
    /\ declared_deps = {}
    /\ found_deps = {}
    /\ stmt_idx = 1
    /\ undeclared_deps = {}
    /\ diagnostics = <<>>
    /\ binding_identifier = None
    /\ nodes = <<>>
    /\ resolved_references = <<>>

InitSite ==
    \/ \E b \in DiffBodies, d \in DiffDeps :
        Enter(HookCall(<<Arrow(b), ArrayExpr(d)>>, SemWith(LetOuter)))
    \/ \E xi \in XInfos, b \in SemBodies, d \in SemDeps :
        Enter(HookCall(<<Arrow(b)>> \o d, SemWith(xi)))
    \/ \E b \in DepShapeBodies, d \in DepShapes :
        Enter(HookCall(<<Arrow(b)>> \o d, SemWith(LetOuter)))
    \/ \E b \in BodyShapes, d \in BodyShapeDeps :
        Enter(HookCall(<<Arrow(b)>> \o d, SemWith(LetOuter)))
    \/ \E nk \in NodeKinds, c \in Callees, a \in FirstArguments, d \in MatchDeps :
        /\ a = <<>> => d = <<>>
        /\ Enter(Site(nk, c, a \o d, SemWith(LetOuter)))

\* `run` called on one node, whatever the node is
Init ==
    /\ pending = {}
    /\ suspended = {}
    /\ InitSite

inputs == <<node_kind, call_expr, sem, pending, suspended,
            binding_identifier, nodes, resolved_references>>

\* lines 51-56: whether the node is a call of a hook with an arrow function
IsHookCall ==
    /\ node_kind = "CallExpression"
    /\ func_call_without_react_namespace(call_expr) # None
    /\ func_call_without_react_namespace(call_expr)[1] \in HOOKS
    /\ callback_body(call_expr) # None

body_statements == callback_body(call_expr)[1]

\* lines 51-56, one of the returns taken
Return ==
    /\ pc = "run"
    /\ ~IsHookCall
    /\ pc' = "done"
    /\ UNCHANGED <<inputs, callback, declared_deps, found_deps, stmt_idx,
                   undeclared_deps, diagnostics>>

\* the found set kept from one call of `run` to the next, as a field of the
\* rule would be, instead of the HashSet::new() of line 67
CollectDeclared_shared ==
    /\ pc = "run"
    /\ IsHookCall
    /\ callback' = func_call_without_react_namespace(call_expr)
    /\ declared_deps' = IF Len(call_expr.arguments) >= 2
                        THEN collect_dependencies(call_expr.arguments[2])
                        ELSE {}
    /\ found_deps' = found_deps
    /\ stmt_idx' = 1
    /\ pc' = "collect"
    /\ UNCHANGED <<inputs, undeclared_deps, diagnostics>>

\* lines 51-62: the hook is matched and the declared set built
CollectDeclared ==
    /\ pc = "run"
    /\ IsHookCall
    /\ callback' = func_call_without_react_namespace(call_expr)
    /\ declared_deps' = IF Len(call_expr.arguments) >= 2
                        THEN collect_dependencies(call_expr.arguments[2])
                        ELSE {}
    /\ found_deps' = {}
    /\ stmt_idx' = 1
    /\ pc' = "collect"
    /\ UNCHANGED <<inputs, undeclared_deps, diagnostics>>

\* the loop of lines 70-72 never moving on to the next statement
CheckStatement_again ==
    /\ pc = "collect"
    /\ stmt_idx <= Len(body_statements)
    /\ found_deps' = check_statement(body_statements[stmt_idx], sem, found_deps)
    /\ stmt_idx' = stmt_idx
    /\ UNCHANGED <<inputs, pc, callback, declared_deps, undeclared_deps, diagnostics>>

\* lines 70-72, one iteration
CheckStatement ==
    /\ pc = "collect"
    /\ stmt_idx <= Len(body_statements)
    /\ found_deps' = check_statement(body_statements[stmt_idx], sem, found_deps)
    /\ stmt_idx' = stmt_idx + 1
    /\ UNCHANGED <<inputs, pc, callback, declared_deps, undeclared_deps, diagnostics>>

\* the difference taken before the loop of lines 70-72 is over
Diff_early ==
    /\ pc = "collect"
    /\ undeclared_deps' = difference(found_deps, declared_deps)
    /\ pc' = "emit"
    /\ UNCHANGED <<inputs, callback, declared_deps, found_deps, stmt_idx, diagnostics>>

\* line 76
Diff ==
    /\ pc = "collect"
    /\ stmt_idx > Len(body_statements)
    /\ undeclared_deps' = difference(found_deps, declared_deps)
    /\ pc' = "emit"
    /\ UNCHANGED <<inputs, callback, declared_deps, found_deps, stmt_idx, diagnostics>>

\* lines 77-90, one iteration; a HashSet is iterated in no particular order
Emit ==
    /\ pc = "emit"
    /\ \E dep \in undeclared_deps :
        /\ undeclared_deps' = undeclared_deps \ {dep}
        /\ diagnostics' =
             IF is_covered(dep, declared_deps) THEN diagnostics
             ELSE Append(diagnostics,
                         MissingDependencyDiagnostic(callback[1], dep, call_expr.span))
    /\ UNCHANGED <<inputs, pc, callback, declared_deps, found_deps, stmt_idx>>

\* line 91: the loop is over
Finish ==
    /\ pc = "emit"
    /\ undeclared_deps = {}
    /\ pc' = "done"
    /\ UNCHANGED <<inputs, callback, declared_deps, found_deps, stmt_idx,
                   undeclared_deps, diagnostics>>

Next == Return \/ CollectDeclared \/ CheckStatement \/ Diff \/ Emit \/ Finish

Spec == Init /\ [][Next]_vars

----------------------------------------------------------------------------
(* The host linter: `run` called on several call sites of one file *)

\* function MyComponent(props) { let x = {};
\*   useEffect(() => { console.log(props.foo); console.log(x); }, [x]);
\*   useEffect(() => { console.log(x); }, [props.foo]);
\*   React.useMemo(() => { console.log(props.foo); }, []);
\*   useState(() => { console.log(x); }, []); }
\* each call with the span it has in the file
At(site, span) == [site EXCEPT !.call_expr.span = span]

SiteFamily ==
    {At(HookCall(<<Arrow(<<ExprStmt(Log(PropsFoo)), ExprStmt(Log(Ident("x")))>>),
                   ArrayExpr(<<Ident("x")>>)>>, SemWith(LetOuter)), 1),
     At(HookCall(<<Arrow(<<ExprStmt(Log(Ident("x")))>>),
                   ArrayExpr(<<PropsFoo>>)>>, SemWith(LetOuter)), 2),
     At(Site("CallExpression", React("useMemo"),
             <<Arrow(<<ExprStmt(Log(PropsFoo))>>), ArrayExpr(<<>>)>>,
             SemWith(LetOuter)), 3),
     At(Site("CallExpression", Ident("useState"),
             <<Arrow(<<ExprStmt(Log(Ident("x")))>>), ArrayExpr(<<>>)>>,
             SemWith(LetOuter)), 4)}

\* the files: at most MaxSites of the calls
Files == {F \in SUBSET SiteFamily : Cardinality(F) \in 1..MaxSites}

\* `run` entered on one call site of a file, the others still to visit
InitSites ==
    \E F \in Files : \E first \in F :
        /\ Enter(first)
        /\ pending = F \ {first}
        /\ suspended = {}

\* the node and the local variables of the activation that is executing
Frame ==
    [node_kind |-> node_kind, call_expr |-> call_expr, pc |-> pc,
     callback |-> callback, declared_deps |-> declared_deps,
     found_deps |-> found_deps, stmt_idx |-> stmt_idx,
     undeclared_deps |-> undeclared_deps]

\* what is suspended when the executing activation gives way: nothing once
\* it has returned
Parked == IF pc = "done" THEN {} ELSE {Frame}

\* line 50: `run` is entered on another node, before or after the executing
\* activation has returned. The locals of the new activation are not bound
\* yet; the model leaves in them what the activation before held.
Visit ==
    /\ \E site \in pending :
        /\ pending' = pending \ {site}
        /\ node_kind' = site.node_kind
        /\ call_expr' = site.call_expr
    /\ suspended' = suspended \cup Parked
    /\ pc' = "run"
    /\ UNCHANGED <<sem, callback, declared_deps, found_deps, stmt_idx,
                   undeclared_deps, diagnostics, binding_identifier, nodes, resolved_references>>

\* a suspended activation goes on: its node and its locals are its own
Resume ==
    /\ \E f \in suspended :
        /\ suspended' = (suspended \ {f}) \cup Parked
        /\ node_kind' = f.node_kind
        /\ call_expr' = f.call_expr
        /\ pc' = f.pc
        /\ callback' = f.callback
        /\ declared_deps' = f.declared_deps
        /\ found_deps' = f.found_deps
        /\ stmt_idx' = f.stmt_idx
        /\ undeclared_deps' = f.undeclared_deps
    /\ UNCHANGED <<sem, pending, diagnostics, binding_identifier, nodes, resolved_references>>

NextSites ==
    \/ Return \/ CollectDeclared \/ CheckStatement \/ Diff \/ Emit \/ Finish
    \/ Visit \/ Resume

SpecSites == InitSites /\ [][NextSites]_vars


----------------------------------------------------------------------------
(* The typescript no-unused-vars rule,                                     *)
(* crates/oxc_linter/src/rules/typescript/no_unused_vars.rs                *)

\* the ancestors of a node, the nearest first, and the class nodes of a file
Interface(name) == [kind |-> "TSInterfaceDeclaration", name |-> name]
ExportNamed == [kind |-> "ExportNamedDeclaration", name |-> ""]
OtherParent == [kind |-> "Program", name |-> ""]

\* TSTypeName::IdentifierReference and TSTypeName::QualifiedName
TypeIdentifier(name) == [type_name |-> "IdentifierReference", name |-> name]
TypeQualified(name) == [type_name |-> "QualifiedName", name |-> name]

\* a class with its Option of implemented types
Class(implements) == [kind |-> "Class", implements |-> implements]

BindingIdentifier(span, symbol_id, parents) ==
    [span |-> span, symbol_id |-> symbol_id, parents |-> parents]

NoUnusedVarsDiagnostic(span) == [span |-> span]

\* the nearest ancestor that is an interface declaration
RECURSIVE find_parent_interface(_)
find_parent_interface(parents) ==
    IF parents = <<>> THEN None
    ELSE IF Head(parents).kind = "TSInterfaceDeclaration" THEN <<Head(parents)>>
    ELSE find_parent_interface(Tail(parents))

\* every class with an implements clause taken as implementing the interface
interface_has_implementations_any(file_nodes, name) ==
    \E i \in DOMAIN file_nodes :
        /\ file_nodes[i].kind = "Class"
        /\ file_nodes[i].implements # None

interface_has_implementations(file_nodes, name) ==
    \E i \in DOMAIN file_nodes :
        /\ file_nodes[i].kind = "Class"
        /\ file_nodes[i].implements # None
        /\ LET impls == file_nodes[i].implements[1]
           IN  \E j \in DOMAIN impls :
                 /\ impls[j].type_name = "IdentifierReference"
                 /\ impls[j].name = name

\* lines 61-66: an ancestor is an export-named declaration
is_exported(parents) ==
    \E i \in DOMAIN parents : parents[i].kind = "ExportNamedDeclaration"

\* whether `run` gets as far as line 72
IsUnused ==
    /\ node_kind = "BindingIdentifier"
    /\ binding_identifier.symbol_id # None
    /\ resolved_references[binding_identifier.symbol_id[1]] = {}
    /\ LET interface == find_parent_interface(binding_identifier.parents)
       IN  IF interface = None THEN TRUE
           ELSE ~interface_has_implementations(nodes, interface[1].name)
    /\ ~is_exported(binding_identifier.parents)

\* lines 44-46, 48-51, 53-59, 68-70, 75: one of the returns taken
NoUnusedVars_return ==
    /\ pc = "run"
    /\ ~IsUnused
    /\ pc' = "done"
    /\ UNCHANGED <<inputs, callback, declared_deps, found_deps, stmt_idx,
                   undeclared_deps, diagnostics>>

\* line 72
NoUnusedVars_report ==
    /\ pc = "run"
    /\ IsUnused
    /\ diagnostics' = Append(diagnostics, NoUnusedVarsDiagnostic(binding_identifier.span))
    /\ pc' = "done"
    /\ UNCHANGED <<inputs, callback, declared_deps, found_deps, stmt_idx,
                   undeclared_deps>>

\* interface A {} / interface B {} / export ... / class C implements ... {}
ParentKinds == {Interface("A"), Interface("B"), ExportNamed, OtherParent}

\* an interface declaration has no interface declaration inside it
ParentChains ==
    {p \in SeqUpTo(ParentKinds, MaxParents) :
        Cardinality({i \in DOMAIN p : p[i].kind = "TSInterfaceDeclaration"}) <= 1}

FileNodes ==
    {Class(None), Class(<< <<TypeIdentifier("A")>> >>),
     Class(<< <<TypeIdentifier("B")>> >>),
     Class(<< <<TypeQualified("A")>> >>),
     Class(<< <<TypeIdentifier("B"), TypeIdentifier("A")>> >>),
     [kind |-> "Function", implements |-> None]}

\* the symbols of the file: symbol 1 never referenced, symbol 2 referenced
ResolvedReferences == <<{}, {1}>>

Spans == {11, 12}

\* NoUnusedVars::run entered on a node of a file
InitUnused ==
    /\ call_expr = [callee |-> Ident("useEffect"), arguments |-> <<>>, span |-> 0]
    /\ sem = SemWith(LetOuter)
    /\ pc = "run"
    /\ callback = None
    /\ declared_deps = {}
    /\ found_deps = {}
    /\ stmt_idx = 1
    /\ undeclared_deps = {}
    /\ diagnostics = <<>>
    /\ pending = {}
    /\ suspended = {}
    /\ resolved_references = ResolvedReferences
    /\ nodes \in SeqUpTo(FileNodes, MaxNodes)
    /\ \/ /\ node_kind = "BindingIdentifier"
          /\ \E span \in Spans, symbol_id \in {None, <<1>>, <<2>>}, parents \in ParentChains :
                binding_identifier = BindingIdentifier(span, symbol_id, parents)
       \/ /\ node_kind \in {"CallExpression", "Class", "IdentifierReference"}
          /\ binding_identifier = None

NextUnused == NoUnusedVars_return \/ NoUnusedVars_report

SpecUnused == InitUnused /\ [][NextUnused]_vars

----------------------------------------------------------------------------
(* Properties *)

\* the run went through the whole analysis of a hook call
Analysed == pc = "done" /\ IsHookCall

HasDeps == Len(call_expr.arguments) >= 2

\* the chains the diagnostics name
Reported == {diagnostics[i].dep : i \in DOMAIN diagnostics}

\* a chain truncated at each of its "." boundaries
Ancestors(c) == {SubSeq(c, 1, i - 1) : i \in {j \in 1..Len(c) : c[j] = "."}}

DiagnosticFor(c) == MissingDependencyDiagnostic(callback[1], c, call_expr.span)

Reads(e) == \E i \in DOMAIN body_statements : body_statements[i] = ExprStmt(Log(e))

\* C1: prefix coverage. A found chain that has a proper ancestor in the
\* declared set gets no diagnostic.
C1_PrefixCoverage ==
    \A c \in found_deps :
        (Ancestors(c) \cap declared_deps # {}) => c \notin Reported

\* a read covered by its declared ancestor, next to one that is reported
C1_Witness ==
    /\ Analysed
    /\ \E c \in found_deps : c \notin declared_deps /\ Ancestors(c) \cap declared_deps # {}
    /\ diagnostics # <<>>

\* C2: a body that reads one multi-level chain rooted at a reactive captured
\* binding, with the empty array declared, gets exactly one diagnostic, naming
\* the matched hook and the whole chain.
C2_DeepChainReported ==
    \A k \in 2..MaxDepth :
        (/\ Analysed
         /\ body_statements = <<ExprStmt(Log(SpinePath("props", k)))>>
         /\ HasDeps
         /\ call_expr.arguments[2] = ArrayExpr(<<>>))
        => diagnostics =
             <<DiagnosticFor(analyze_property_chain(SpinePath("props", k)))>>

C4_Omission ==
    \A c \in found_deps :
        (/\ Analysed
         /\ declared_deps = found_deps \ {c}
         /\ Ancestors(c) \cap declared_deps = {})
        => diagnostics = <<DiagnosticFor(c)>>

\* one of two found chains of the same root is left out of the declared list
C4_Witness ==
    /\ Analysed
    /\ \E c \in found_deps :
        /\ declared_deps = found_deps \ {c}
        /\ Ancestors(c) \cap declared_deps = {}
        /\ Ancestors(c) # {}
        /\ \E d \in declared_deps : Ancestors(d) = Ancestors(c)

\* C5: a hook call without a second argument gets no diagnostic, whatever
\* its callback reads.
C5_NoDepsNoDiagnostic ==
    (Analysed /\ ~HasDeps) => diagnostics = <<>>

\* C6: a hook call whose second argument is not an array literal gets no
\* diagnostic, whatever its callback reads.
C6_NotArrayNoDiagnostic ==
    (Analysed /\ HasDeps /\ ~IsArray(call_expr.arguments[2])) => diagnostics = <<>>

\* an expression with its optional accesses written as plain accesses
RECURSIVE Plain(_)
RECURSIVE PlainAll(_)
PlainAll(es) == [i \in DOMAIN es |-> Plain(es[i])]
Plain(e) ==
    IF DOMAIN e = {"chain"} THEN Plain(e.chain)
    ELSE IF IsMember(e) THEN [e EXCEPT !.object = Plain(e.object)]
    ELSE IF IsCall(e) THEN Call(Plain(e.callee), PlainAll(e.arguments))
    ELSE IF IsArray(e) THEN ArrayExpr(PlainAll(e.elements))
    ELSE IF IsSpread(e) THEN Spread(Plain(e.spread))
    ELSE IF IsExprStmt(e) THEN ExprStmt(Plain(e.expression))
    ELSE e

RECURSIVE FoundIn(_, _)
FoundIn(stmts, deps) ==
    IF stmts = <<>> THEN deps
    ELSE FoundIn(Tail(stmts), check_statement(Head(stmts), sem, deps))

\* what the call site is reported for when its optional accesses are plain
PlainReported ==
    LET declared == IF HasDeps THEN collect_dependencies(Plain(call_expr.arguments[2]))
                    ELSE {}
        found == FoundIn(PlainAll(body_statements), {})
    IN  {d \in difference(found, declared) : ~is_covered(d, declared)}

\* C7: optional-access equivalence. `a?.b` is the same chain as `a.b`, in the
\* declared list and in the body: a call site is reported for the chains it
\* is reported for with every optional access written as a plain access.
C7_OptionalAccessEquivalence ==
    Analysed => Reported = PlainReported

\* x is the second element of an array pattern initialised by a call of
\* useState or useReducer, bare or through React
IsStateSetter(d) ==
    /\ d.node = "VariableDeclarator"
    /\ d.id.pattern = "ArrayPattern"
    /\ Len(d.id.elements) >= 2
    /\ d.id.elements[2] = <<PatIdent("x")>>
    /\ d.init # <<>>
    /\ IsCall(d.init[1])
    /\ d.init[1].callee \in
         {Ident("useState"), Ident("useReducer"), React("useState"), React("useReducer")}

\* C8: stable-setter exemption. The second element of an array pattern
\* initialised by a call of useState or useReducer, bare or through a
\* namespace, is Stable under const, let and var: no diagnostic names it.
C8_StableSetter ==
    (Analysed /\ IsStateSetter(sem["x"])) => \A d \in Reported : d[1] # "x"

\* C9: with `const [x, setX] = useState()`, a body that reads x while x is
\* not declared gets a diagnostic naming x.
C9_StateReported ==
    (/\ Analysed
     /\ sem["x"] = Declarator("const", <<Call(Ident("useState"), <<>>)>>,
                              IdArray(<< <<PatIdent("x")>>, <<PatIdent("setX")>> >>),
                              "outer")
     /\ Reads(Ident("x"))
     /\ <<"x">> \notin declared_deps)
    => <<"x">> \in Reported

\* C10: local exemption. A binding declared inside the callback body, at its
\* top level or in a nested block, is never reported.
C10_LocalExemption ==
    (Analysed /\ sem["x"].node # "None" /\ sem["x"].scope \in {"callback", "inner"})
    => \A d \in Reported : d[1] # "x"

\* the callee is one of the four hooks, bare or as a static member of React
CalleeIsHook ==
    call_expr.callee \in {Ident(h) : h \in HOOKS} \cup {React(h) : h \in HOOKS}

\* the name of a callee that is a hook, without its namespace
HookName ==
    IF IsIdentifier(call_expr.callee) THEN call_expr.callee.id
    ELSE call_expr.callee.property

Malformed ==
    \/ Len(call_expr.arguments) = 0
    \/ /\ ~IsArrow(call_expr.arguments[1])
       /\ DOMAIN call_expr.arguments[1] # {"function"}

DiagnosticsOf(c) == {i \in DOMAIN diagnostics : diagnostics[i].dep = c}

\* C13: one diagnostic per uncovered chain. A found chain that is neither
\* declared nor covered by a declared ancestor gets exactly one diagnostic,
\* however often it is read; it carries the hook name without its namespace,
\* the dot-joined chain and the span of the hook call.
C13_OneDiagnosticPerChain ==
    Analysed =>
        \A c \in found_deps :
            (c \notin declared_deps /\ Ancestors(c) \cap declared_deps = {})
            => /\ Cardinality(DiagnosticsOf(c)) = 1
               /\ \A i \in DiagnosticsOf(c) :
                    diagnostics[i] =
                        [hook |-> HookName, dep |-> c, span |-> call_expr.span]

\* the same property chain read by two statements and reported once
C13_Witness ==
    /\ Analysed
    /\ Len(body_statements) = 2
    /\ body_statements[1] = body_statements[2]
    /\ Len(diagnostics) = 1
    /\ Len(diagnostics[1].dep) > 1

\* the expressions the walk is to reach from e: e itself, the callee and the
\* arguments of a call, the elements of an array
RECURSIVE Parts(_)
Parts(e) ==
    {e} \cup
    (IF IsCall(e)
     THEN Parts(e.callee) \cup
          UNION {Parts(e.arguments[i]) :
                    i \in {j \in DOMAIN e.arguments : IsExpression(e.arguments[j])}}
     ELSE IF IsArray(e)
     THEN UNION {Parts(e.elements[i]) :
                    i \in {j \in DOMAIN e.elements : IsExpression(e.elements[j])}}
     ELSE {})

\* an identifier, or one property of an identifier
IsSimpleRead(e) ==
    \/ IsIdentifier(e)
    \/ IsMember(e) /\ ~e.computed /\ IsIdentifier(e.object)

RootOf(e) == IF IsIdentifier(e) THEN e ELSE e.object

\* the supported reads of reactive captured bindings in the expression
\* statements of the body
SupportedReads ==
    UNION {{analyze_property_chain(r) :
              r \in {q \in Parts(body_statements[i].expression) :
                        IsSimpleRead(q) /\ is_identifier_a_dependency(RootOf(q), sem)}} :
           i \in {j \in DOMAIN body_statements : IsExprStmt(body_statements[j])}}

\* the supported elements of the dependency array
SupportedDeclared ==
    IF HasDeps /\ IsArray(call_expr.arguments[2])
    THEN LET elems == call_expr.arguments[2].elements
         IN  {analyze_property_chain(elems[i]) :
                 i \in {j \in DOMAIN elems : IsSimpleRead(elems[j])}}
    ELSE {}

\* C14: best-effort traversal. An unsupported statement, expression, argument
\* or array element is skipped alone: every supported read of the body is
\* still found, every supported element of the array is still declared, and
\* the found reads are diffed against the declared set.
C14_BestEffort ==
    Analysed =>
        /\ SupportedReads \subseteq found_deps
        /\ SupportedDeclared \subseteq declared_deps
        /\ Reported = {c \in found_deps \ declared_deps :
                          Ancestors(c) \cap declared_deps = {}}

\* an unsupported statement, then a call whose first argument is a spread: the
\* read in its second argument is found and reported
C14_Witness ==
    /\ Analysed
    /\ Len(body_statements) = 2
    /\ ~IsExprStmt(body_statements[1])
    /\ body_statements[2] =
         ExprStmt(Call(StaticMember(Ident("console"), "log"),
                       <<Spread(Ident("x")), PropsBar>>))
    /\ <<"props", ".", "bar">> \in Reported

\* the expressions right under a statement or an expression of a shape the
\* walk has no arm for: the test of an if, the argument of a return, the
\* initializer of a declaration, the operands of a binary expression
IsOtherExpr(e) == DOMAIN e = {"kind", "operands"}

Beneath(st) ==
    IF ~IsExprStmt(st) THEN {st.inner}
    ELSE IF IsOtherExpr(st.expression)
    THEN {st.expression.operands[i] : i \in DOMAIN st.expression.operands}
    ELSE {}

\* C17: full-body walk. A read of a reactive captured binding is in the found
\* set wherever it occurs in the body: under an if, a return, a variable
\* declaration or a binary expression as well as in an expression statement.
C17_FullBodyWalk ==
    Analysed =>
        \A i \in DOMAIN body_statements :
            \A r \in Beneath(body_statements[i]) :
                (IsSimpleRead(r) /\ is_identifier_a_dependency(RootOf(r), sem))
                => analyze_property_chain(r) \in found_deps

\* the member accesses the walk reaches in e, with the objects they are on
Accesses(e) ==
    LET members == {q \in Parts(e) : IsMember(q)}
    IN  members \cup {q.object : q \in {m \in members : IsMember(m.object)}}

\* C18: deepest analyzable chain. A reference that passes the skip rules puts
\* a chain rooted at its identifier into the found set; under an access that
\* is computed from an index the chain is cut at the identifier, the read is
\* not dropped.
C18_DeepestChain ==
    Analysed =>
        \A i \in {j \in DOMAIN body_statements : IsExprStmt(body_statements[j])} :
            \A q \in Accesses(body_statements[i].expression) :
                (/\ q.computed
                 /\ IsIdentifier(q.object)
                 /\ is_identifier_a_dependency(q.object, sem))
                => \E c \in found_deps : c[1] = q.object.id

IsConst(declaration) ==
    /\ declaration.node \in {"VariableDeclaration", "VariableDeclarator"}
    /\ declaration.kind = "const"

ParameterReads ==
    UNION {{q \in Parts(body_statements[i].expression) :
              IsSimpleRead(q) /\ sem[RootOf(q).id].node = "FormalParameter"} :
           i \in {j \in DOMAIN body_statements : IsExprStmt(body_statements[j])}}

\* C20: stability rule 3. A parameter of an enclosing function is never
\* Stable: a read of it or of a property of it, where neither the read chain
\* nor an ancestor of it is declared, gets a diagnostic naming the chain.
C20_ParameterReported ==
    Analysed =>
        \A q \in ParameterReads :
            LET c == analyze_property_chain(q)
            IN  /\ ~is_stable_value(sem[RootOf(q).id], RootOf(q).id)
                /\ (c \notin declared_deps /\ Ancestors(c) \cap declared_deps = {})
                   => c \in Reported

\* a property of the parameter x read, the array empty, the chain reported
C20_Witness ==
    /\ Analysed
    /\ sem["x"] = Param
    /\ Reads(StaticMember(Ident("x"), "foo"))
    /\ call_expr.arguments[2] = ArrayExpr(<<>>)
    /\ <<"x", ".", "foo">> \in Reported

\* the part of `run` that is executing, counted from its end
Phase ==
    IF pc = "run" THEN 3 ELSE IF pc = "collect" THEN 2 ELSE IF pc = "emit" THEN 1 ELSE 0

\* what the loop that is executing has left: the statements of the body not
\* yet walked (line 70), the undeclared chains not yet looked at (line 77)
Remaining ==
    IF pc = "collect" THEN Len(body_statements) + 1 - stmt_idx
    ELSE IF pc = "emit" THEN Cardinality(undeclared_deps)
    ELSE 0

\* C16: termination. For every finite callback body and dependency array the
\* recursion over the body and the array ends and `run` reaches its end:
\* until it has returned `run` has a step to take, and every step either
\* leaves a loop for a later part of `run` or leaves the loop less to do.
C16_Termination ==
    /\ [](pc # "done" => ENABLED Next)
    /\ [][\/ Phase' < Phase
          \/ Phase' = Phase /\ Remaining' < Remaining]_vars

\* the end of `run` after a body of the greatest length with reads at the
\* greatest depth of calls and a dependency array of the greatest length
C16_Witness ==
    /\ Analysed
    /\ Len(body_statements) = MaxStmts
    /\ \A i \in DOMAIN body_statements : body_statements[i] = ExprStmt(Log(PropsFooBar))
    /\ HasDeps
    /\ IsArray(call_expr.arguments[2])
    /\ Len(call_expr.arguments[2].elements) = MaxElems
    /\ stmt_idx = MaxStmts + 1
    /\ undeclared_deps = {}

\* the call site of the file that has the span
SiteAt(span) == CHOOSE site \in SiteFamily : site.call_expr.span = span

\* the found set of a call site after n statements of its body
RECURSIVE FoundAfter(_, _)
FoundAfter(site, n) ==
    IF n = 0 THEN {}
    ELSE check_statement(callback_body(site.call_expr)[1][n], site.sem,
                         FoundAfter(site, n - 1))

DeclaredOf(site) ==
    IF Len(site.call_expr.arguments) >= 2
    THEN collect_dependencies(site.call_expr.arguments[2]) ELSE {}

\* the diagnostics of a call site analysed alone
Alone(site) ==
    LET call == site.call_expr
        name == func_call_without_react_namespace(call)
    IN  IF \/ site.node_kind # "CallExpression"
           \/ name = None
           \/ callback_body(call) = None
        THEN {}
        ELSE IF name[1] \notin HOOKS THEN {}
        ELSE LET declared == DeclaredOf(site)
                 found == FoundAfter(site, Len(callback_body(call)[1]))
             IN  {MissingDependencyDiagnostic(name[1], d, call.span) :
                    d \in {c \in difference(found, declared) :
                             ~is_covered(c, declared)}}

\* the diagnostics emitted so far for the call site of the span
EmittedAt(span) ==
    {diagnostics[i] : i \in {j \in DOMAIN diagnostics : diagnostics[j].span = span}}

\* C15: no cross-call-site state. Whatever the order in which the call sites
\* of a file are analysed and however their analyses interleave, every
\* diagnostic is one its call site gets when analysed alone, a call site whose
\* analysis has ended has all of them, once each, and the declared and found
\* sets an analysis works on are built from its own call site only.
C15_NoCrossSiteState ==
    /\ \A i \in DOMAIN diagnostics :
        /\ diagnostics[i] \in Alone(SiteAt(diagnostics[i].span))
        /\ \A j \in DOMAIN diagnostics : diagnostics[i] = diagnostics[j] => i = j
    /\ pc = "done" => EmittedAt(call_expr.span) = Alone(SiteAt(call_expr.span))
    /\ pc \in {"collect", "emit"} =>
        /\ declared_deps = DeclaredOf(SiteAt(call_expr.span))
        /\ found_deps = FoundAfter(SiteAt(call_expr.span), stmt_idx - 1)
    /\ pc = "emit" => undeclared_deps \subseteq found_deps \ declared_deps

\* two analyses interleaved: each has emitted its diagnostic and neither has
\* returned
C15_Witness ==
    /\ pc = "emit"
    /\ \E i \in DOMAIN diagnostics : diagnostics[i].span = call_expr.span
    /\ \E f \in suspended :
        /\ f.pc = "emit"
        /\ f.found_deps # found_deps
        /\ \E i \in DOMAIN diagnostics : diagnostics[i].span = f.call_expr.span

\* a declarator whose pattern destructures the array a state hook returns
IsStateDestructuring(declaration) ==
    /\ declaration.id.pattern = "ArrayPattern"
    /\ declaration.init # <<>>
    /\ IsCall(declaration.init[1])
    /\ declaration.init[1].callee \in
         {Ident("useState"), Ident("useReducer"), React("useState"), React("useReducer")}

\* whether the second element of the pattern of the declarator binds name
BindsSecond(declaration, name) ==
    /\ Len(declaration.id.elements) >= 2
    /\ declaration.id.elements[2] # <<>>
    /\ declaration.id.elements[2][1] = PatIdent(name)

\* the declarations of x that none of the three stability rules is about
DefaultShape(declaration) ==
    \/ declaration.node \in {"Function", "Class", "ImportSpecifier"}
    \/ /\ declaration.node = "VariableDeclaration"
       /\ declaration.kind \in {"let", "var"}
    \/ /\ declaration.node = "VariableDeclarator"
       /\ declaration.kind \in {"let", "var"}
       /\ ~(IsStateDestructuring(declaration) /\ BindsSecond(declaration, "x"))

\* C21: stability default. A declaration that is no const, no setter of a
\* state hook and no parameter is not Stable: a let or var, the first element
\* of a state destructuring, a function, a class, an import. A read of it
\* from the enclosing scope is found.
C21_DefaultReactive ==
    DefaultShape(sem["x"]) =>
        /\ ~is_stable_value(sem["x"], "x")
        /\ (Analysed /\ Reads(Ident("x")) /\ sem["x"].scope = "outer")
           => <<"x">> \in found_deps

\* the state of `let [x, setX] = useState()` read and reported
C21_Witness ==
    /\ Analysed
    /\ sem["x"] = Declarator("let", <<Call(Ident("useState"), <<>>)>>,
                             IdArray(<< <<PatIdent("x")>>, <<PatIdent("setX")>> >>),
                             "outer")
    /\ Reads(Ident("x"))
    /\ call_expr.arguments[2] = ArrayExpr(<<>>)
    /\ <<"x">> \in Reported

\* C22: global and unresolved skip. An identifier that refers to a global or
\* for which no declaration is found is never in the found set, alone or as
\* the root of a chain, and is never reported, whatever is declared.
C22_GlobalSkip ==
    \A n \in Names :
        (sem[n].global \/ sem[n].node = "None")
        => \A c \in found_deps \cup undeclared_deps \cup Reported : c[1] # n

\* an unresolved x read alone and as the root of a chain, nothing declared
C22_Witness ==
    /\ Analysed
    /\ sem["x"] = Unresolved
    /\ Reads(Ident("x"))
    /\ Reads(StaticMember(Ident("x"), "foo"))
    /\ call_expr.arguments[2] = ArrayExpr(<<>>)
    /\ diagnostics = <<>>

\* an identifier, or a property of a plain chain written with its name
RECURSIVE IsPlainChain(_)
IsPlainChain(e) ==
    \/ IsIdentifier(e)
    \/ IsMember(e) /\ ~e.computed /\ IsPlainChain(e.object)

\* the names of a plain chain, root first, joined by "."
RECURSIVE Canon(_)
Canon(e) ==
    IF IsIdentifier(e) THEN <<e.id>>
    ELSE Canon(e.object) \o <<".", e.property>>

\* the second argument is an array literal and has just been parsed (the
\* declared set is not written again, see C26)
DeclaredParsed ==
    /\ pc = "collect"
    /\ stmt_idx = 1
    /\ HasDeps
    /\ IsArray(call_expr.arguments[2])

DepArray == call_expr.arguments[2].elements

\* the places of the array that hold an analyzable element
Analyzable == {i \in DOMAIN DepArray : IsExpression(DepArray[i]) /\ IsPlainChain(DepArray[i])}

Reverse(seq) == [i \in DOMAIN seq |-> seq[Len(seq) + 1 - i]]

RECURSIVE Objects(_)
Objects(e) == {e} \cup (IF IsMember(e) THEN Objects(e.object) ELSE {})

DepExpressions ==
    UNION {Objects(DepArray[i]) : i \in {j \in DOMAIN DepArray : IsExpression(DepArray[j])}}

C25_OneDirectional ==
    Analysed =>
        \A c \in found_deps :
            (declared_deps # {} /\ \A d \in declared_deps : c \in Ancestors(d))
            => c \in Reported

\* props.foo read, props.foo.bar declared, props.foo reported
C25_Witness ==
    /\ Analysed
    /\ <<"props", ".", "foo">> \in found_deps
    /\ declared_deps = {<<"props", ".", "foo", ".", "bar">>}
    /\ <<"props", ".", "foo">> \in Reported

\* what lines 76-90 report for a found and a declared set
ReportedFor(found, declared) ==
    {d \in difference(found, declared) : ~is_covered(d, declared)}

\* the chains a dependency array of the explored inputs can declare
DeclarableChains == {Canon(p) : p \in DiffPaths}

PassOrder ==
    {<<"run", "collect">>, <<"run", "done">>, <<"collect", "collect">>,
     <<"collect", "emit">>, <<"emit", "emit">>, <<"emit", "done">>}

\* C26: single linear pass. The steps come in the order match, parse
\* declared, collect found, diff, emit: the declared set is written only
\* before collection starts, the found set only grows and only during
\* collection, the difference is taken once collection is over, and a
\* diagnostic is emitted only after the whole body has been walked.
C26_LinearPass ==
    [][/\ <<pc, pc'>> \in PassOrder
       /\ declared_deps' # declared_deps => pc = "run"
       /\ found_deps \subseteq found_deps'
       /\ found_deps' # found_deps => pc = "collect" /\ pc' = "collect"
       /\ undeclared_deps' # undeclared_deps =>
            /\ pc \in {"collect", "emit"}
            /\ pc' = "emit"
            /\ stmt_idx > Len(body_statements)
       /\ diagnostics' # diagnostics =>
            /\ pc = "emit"
            /\ stmt_idx > Len(body_statements)
            /\ undeclared_deps \subseteq found_deps \ declared_deps]_vars

\* in the middle of the emit loop after a body of two statements: one
\* diagnostic emitted, one undeclared chain still to look at
C26_Witness ==
    /\ pc = "emit"
    /\ Len(body_statements) = 2
    /\ stmt_idx = 3
    /\ declared_deps # {}
    /\ Len(diagnostics) = 1
    /\ undeclared_deps # {}

\* the first argument is an expression that is no arrow function
NotArrow ==
    /\ Len(call_expr.arguments) >= 1
    /\ IsExpression(call_expr.arguments[1])
    /\ ~IsArrow(call_expr.arguments[1])

InImplementedInterface ==
    \E i \in DOMAIN binding_identifier.parents :
        /\ binding_identifier.parents[i].kind = "TSInterfaceDeclaration"
        /\ \E n \in DOMAIN nodes :
             /\ nodes[n].kind = "Class"
             /\ nodes[n].implements # None
             /\ \E j \in DOMAIN nodes[n].implements[1] :
                  nodes[n].implements[1][j] = TypeIdentifier(binding_identifier.parents[i].name)

\* the three conditions of the rule on a binding identifier
ShouldReport ==
    /\ node_kind = "BindingIdentifier"
    /\ binding_identifier.symbol_id # None
    /\ resolved_references[binding_identifier.symbol_id[1]] = {}
    /\ ~InImplementedInterface
    /\ \A i \in DOMAIN binding_identifier.parents : binding_identifier.parents[i] # ExportNamed

====
